---- MODULE Spec2Model ----
(***************************************************************************)
(* The interview state machine of excel-interview-bot:                     *)
(*   src/interviewer.py    JobWinningInterviewAgent (skill profile, Oracle  *)
(*                         calls, evaluation, final report and its log)    *)
(*   src/streamlit_app.py  the session state, the handlers start_interview, *)
(*                         handle_user_response, reset_interview and the    *)
(*                         stage-by-stage script that Streamlit re-runs     *)
(*                         on every user event.                            *)
(*                                                                         *)
(* Texts are sequences of string fragments, so that an f-string is the     *)
(* concatenation (\o) of its literal parts and its arguments.  A Python    *)
(* value returned by json.loads is a tagged record [t, v]: t = "dict" for  *)
(* a JSON object (v maps its keys to values), any other tag for a value    *)
(* without a .get method.                                                  *)
(***************************************************************************)
EXTENDS Integers, Sequences, FiniteSets, TLC

(***************************************************************************)
(* Bounds of the model.                                                    *)
(***************************************************************************)
\* what the candidate submits in one run of the app, over all its sessions:
\* start forms and chat messages
MaxInputs == 5
\* failures injected in one run of Spec: Oracle calls that throw or return
\* malformed content, and log writes that fail
MaxFaults == 1
\* the clock (whole seconds) read by generate_final_report stops here
MaxTime == 1

(***************************************************************************)
(* Program constants.                                                      *)
(***************************************************************************)
\* "score": <1-5> and "efficiency_score": <1-5> in the evaluation prompts
MaxScore == 5

technical_skills == <<"Data Cleaning", "Data Analysis", "Data Summarization">>

TechnicalSkills == {technical_skills[i] : i \in 1..Len(technical_skills)}

Skills == TechnicalSkills \cup {"Behavioral"}

\* the order in which questions can be asked: the technical skills, then Behavioral
QuestionOrder == technical_skills \o <<"Behavioral">>

\* the role selectbox of the start form
Roles == {<<"Data Analytics">>, <<"Finance">>, <<"Operations">>}

\* Python's None, for a text, for a skill name, for the agent
NoneText == <<>>

NoneSkill == "None"

NoneAgent == [none |-> TRUE]

EmptyDict == [k \in {} |-> NoneText]

NoneValue == [t |-> "None", v |-> EmptyDict]

Dict(d) == [t |-> "dict", v |-> d]

\* a JSON array: json.loads accepts it, and it has no .get
JsonList == [t |-> "list", v |-> EmptyDict]

\* x.get(...) raises AttributeError unless x is a dict
HasGet(x) == x.t = "dict"

\* d.get(k, default)
Get(x, k, default) == IF k \in DOMAIN x.v THEN x.v[k] ELSE default

\* str(v) inside an f-string, for a text or None
Str(v) == IF v = NoneText THEN <<"None">> ELSE v

(***************************************************************************)
(* The Oracle (Gemini).  One call's outcome is a reply record:             *)
(*   kind = "throw"  generate_content (or response.text) raises;           *)
(*   kind = "text"   response.text is reply.text; reply.parse is what      *)
(*                   json.loads makes of the stripped text: a tagged       *)
(*                   value, or [t |-> "invalid"] for a JSONDecodeError.    *)
(***************************************************************************)
Invalid == [t |-> "invalid", v |-> EmptyDict]

Throw == [kind |-> "throw", text |-> NoneText, parse |-> Invalid]

TextReply(txt) == [kind |-> "text", text |-> txt, parse |-> Invalid]

JsonReply(val) == [kind |-> "text", text |-> <<"{json}">>, parse |-> val]

ApologyText == <<"My apologies, I encountered a system error. Let's try the next step.">>

ErrorDict ==
    Dict([k \in {"error", "scenario", "dataset_description"} |->
            IF k = "error" THEN <<"Failed to get a valid response from the model.">>
            ELSE <<"Error">>])

\* a slip: the apology text is returned for a JSON call too; a str has no .get
fallback_text_only(is_json) ==
    IF is_json THEN [t |-> "str", v |-> EmptyDict] ELSE ApologyText

\* the value _call_gemini returns when the call or the parse raised
Fallback(is_json) == IF is_json THEN ErrorDict ELSE ApologyText

\* a slip: json.loads is outside the try, so a JSONDecodeError escapes
_call_gemini_parse_unguarded(reply, is_json) ==
    IF reply.kind = "throw" THEN Fallback(is_json)
    ELSE IF is_json THEN reply.parse
         ELSE reply.text

_call_gemini(reply, is_json) ==
    IF reply.kind = "throw" THEN Fallback(is_json)
    ELSE IF is_json
         THEN IF reply.parse.t = "invalid" THEN Fallback(TRUE) ELSE reply.parse
         ELSE reply.text

\* what the Oracle writes when a free-text call succeeds: an opaque text
\* that names the request it answers
Completion(request) == <<"LLM: ">> \o request

\* the outcome of a free-text call: it succeeds or it throws
TextOutcomes == {"ok", "throw"}

Generate(outcome, request) ==
    IF outcome = "throw" THEN Throw ELSE TextReply(Completion(request))

Whitespace == {" ", "\n"}

RECURSIVE lstrip(_)
lstrip(txt) ==
    IF txt # <<>> /\ Head(txt) \in Whitespace THEN lstrip(Tail(txt)) ELSE txt

RECURSIVE rstrip(_)
rstrip(txt) ==
    IF txt # <<>> /\ txt[Len(txt)] \in Whitespace
    THEN rstrip(SubSeq(txt, 1, Len(txt) - 1))
    ELSE txt

\* str.strip()
strip(txt) == rstrip(lstrip(txt))

(***************************************************************************)
(* JobWinningInterviewAgent.                                               *)
(***************************************************************************)
UntestedRecord(skill) ==
    IF skill = "Behavioral"
    THEN [status |-> "Untested", score |-> 0, evidence |-> NoneText]
    ELSE [status |-> "Untested", score |-> 0, efficiency |-> 0, evidence |-> NoneText]

\* __init__: the api key is configured (the script checks it before any stage)
NewAgent(name) ==
    [candidate_name |-> name,
     interview_role |-> NoneText,
     skill_profile |-> [sk \in Skills |-> UntestedRecord(sk)],
     case_study_data |-> NoneValue,
     conversation_history |-> <<>>]

\* the f-string _introduce_case_study returns
CaseStudyIntro(case) ==
    <<"Okay, let's dive into a practical case study. Scenario: ">>
        \o Str(Get(case, "scenario", NoneText))
        \o <<" Dataset: ">>
        \o Str(Get(case, "dataset_description", NoneText))
        \o <<" First, let's talk about cleaning this data.">>

\* _introduce_case_study: the agent with case_study_data stored, the text
\* returned, and whether case_study_data.get raised
_introduce_case_study(agent, reply) ==
    LET case == _call_gemini(reply, TRUE)
        stored == [agent EXCEPT !.case_study_data = case]
    IN  IF HasGet(case)
        THEN [agent |-> stored, text |-> CaseStudyIntro(case), raised |-> FALSE]
        ELSE [agent |-> stored, text |-> NoneText, raised |-> TRUE]

_ask_next_question(agent, skill_to_test, outcome) ==
    _call_gemini(Generate(outcome, <<"question on ", skill_to_test>>), FALSE)

_check_user_intent(reply) == strip(_call_gemini(reply, FALSE))

_generate_hint(question, outcome) ==
    _call_gemini(Generate(outcome, <<"hint for ">> \o Str(question)), FALSE)

TechnicalEvidence(question, answer, evaluation) ==
    <<"Q: ">> \o Str(question) \o <<" A: ">> \o answer
        \o <<" Eval: ">> \o Str(Get(evaluation, "justification", NoneText))
        \o <<" Efficency: ">>
        \o Str(Get(evaluation, "efficiency_justification", NoneText))

\* a slip: the two scores are read from each other's key
_evaluate_technical_swapped(agent, question, answer, skill_being_tested, reply) ==
    LET evaluation == _call_gemini(reply, TRUE)
    IN  IF ~HasGet(evaluation)
        THEN [agent |-> agent, text |-> NoneText, raised |-> TRUE]
        ELSE [agent |->
                [agent EXCEPT !.skill_profile[skill_being_tested] =
                    [@ EXCEPT !.status = "Assessed",
                              !.score = Get(evaluation, "efficiency_score", 0),
                              !.efficiency = Get(evaluation, "score", 0),
                              !.evidence =
                                  TechnicalEvidence(question, answer, evaluation)]],
              text |-> Get(evaluation, "bot_response", <<"Okay, thank you for that.">>),
              raised |-> FALSE]

\* _evaluate_technical_answer: the arguments of update() are computed first, so
\* an evaluation without .get raises before the profile changes
_evaluate_technical_answer(agent, question, answer, skill_being_tested, reply) ==
    LET evaluation == _call_gemini(reply, TRUE)
    IN  IF ~HasGet(evaluation)
        THEN [agent |-> agent, text |-> NoneText, raised |-> TRUE]
        ELSE [agent |->
                [agent EXCEPT !.skill_profile[skill_being_tested] =
                    [@ EXCEPT !.status = "Assessed",
                              !.score = Get(evaluation, "score", 0),
                              !.efficiency = Get(evaluation, "efficiency_score", 0),
                              !.evidence =
                                  TechnicalEvidence(question, answer, evaluation)]],
              text |-> Get(evaluation, "bot_response", <<"Okay, thank you for that.">>),
              raised |-> FALSE]

_ask_and_evaluate_behavioral(outcome) ==
    _call_gemini(Generate(outcome, <<"a behavioral question">>), FALSE)

BehavioralEvidence(question, answer, evaluation) ==
    <<"Q: ">> \o Str(question) \o <<" A: ">> \o answer
        \o <<" Eval: ">> \o Str(Get(evaluation, "justification", NoneText))

\* a slip: update() without the "status" key
evaluate_behavioral_no_status(agent, question, answer, reply) ==
    LET evaluation == _call_gemini(reply, TRUE)
    IN  IF ~HasGet(evaluation)
        THEN [agent |-> agent, text |-> NoneText, raised |-> TRUE]
        ELSE [agent |->
                [agent EXCEPT !.skill_profile["Behavioral"] =
                    [@ EXCEPT !.score = Get(evaluation, "score", 0),
                              !.evidence =
                                  BehavioralEvidence(question, answer, evaluation)]],
              text |-> <<"Thank you for sharing that.">>,
              raised |-> FALSE]

evaluate_behavioral_answer(agent, question, answer, reply) ==
    LET evaluation == _call_gemini(reply, TRUE)
    IN  IF ~HasGet(evaluation)
        THEN [agent |-> agent, text |-> NoneText, raised |-> TRUE]
        ELSE [agent |->
                [agent EXCEPT !.skill_profile["Behavioral"] =
                    [@ EXCEPT !.status = "Assessed",
                              !.score = Get(evaluation, "score", 0),
                              !.evidence =
                                  BehavioralEvidence(question, answer, evaluation)]],
              text |-> <<"Thank you for sharing that.">>,
              raised |-> FALSE]

\* candidate_name.replace(' ', '_')
replace_spaces(name) == [i \in 1..Len(name) |-> IF name[i] = " " THEN "_" ELSE name[i]]

\* the log's file name: interview_log_<name>_<int(time.time())>.json
LogFileName(agent, t) == [name |-> replace_spaces(agent.candidate_name), time |-> t]

\* a slip: the profile is written as __init__ builds it, not as the session
\* left it
feedback_data_initial_profile(agent, final_report, t) ==
    [candidate_name |-> agent.candidate_name,
     interview_role |-> agent.interview_role,
     final_skill_profile |-> [sk \in Skills |-> UntestedRecord(sk)],
     ai_generated_report |-> final_report,
     full_transcript |-> agent.conversation_history,
     timestamp |-> t]

\* the record json.dump writes: the values the agent's fields hold at that moment
FeedbackData(agent, final_report, t) ==
    [candidate_name |-> agent.candidate_name,
     interview_role |-> agent.interview_role,
     final_skill_profile |-> agent.skill_profile,
     ai_generated_report |-> final_report,
     full_transcript |-> agent.conversation_history,
     timestamp |-> t]

\* open(filename, 'w') and json.dump: the file is created or overwritten
WriteFile(fs, filename, data) ==
    [f \in DOMAIN fs \cup {filename} |-> IF f = filename THEN data ELSE fs[f]]

WriteOutcomes == {"ok", "fail"}

\* a slip: the write is outside the try, so its failure ends the call
generate_final_report_unguarded(agent, fs, outcome, t, write) ==
    LET final_report ==
            _call_gemini(Generate(outcome, <<"report for ">> \o agent.candidate_name),
                         FALSE)
    IN  IF write = "ok"
        THEN [text |-> final_report,
              files |-> WriteFile(fs, LogFileName(agent, t),
                                  FeedbackData(agent, final_report, t)),
              raised |-> FALSE]
        ELSE [text |-> NoneText, files |-> fs, raised |-> TRUE]

\* generate_final_report at clock t: the text returned, the files afterwards and
\* whether the call raised; a failed write is caught and reported on the console
\* only
generate_final_report(agent, fs, outcome, t, write) ==
    LET final_report ==
            _call_gemini(Generate(outcome, <<"report for ">> \o agent.candidate_name),
                         FALSE)
    IN  [text |-> final_report,
         files |-> IF write = "ok"
                   THEN WriteFile(fs, LogFileName(agent, t),
                                  FeedbackData(agent, final_report, t))
                   ELSE fs,
         raised |-> FALSE]

(***************************************************************************)
(* streamlit_app.py: the handlers.  A handler works on the session record  *)
(* ss: the six keys of st.session_state, together with                     *)
(*   asked   the skills a question has been asked for in this session,     *)
(*           in the order asked (history, for the claims);                 *)
(*   raised  whether the handler ended in an uncaught exception.           *)
(***************************************************************************)
Message(role, content) == [role |-> role, content |-> content]

\* the state set up at lines 21-33, and again by reset_interview
FreshSession ==
    [stage |-> "start",
     messages |-> <<>>,
     agent |-> NoneAgent,
     current_question |-> NoneText,
     current_skill |-> NoneSkill,
     confirm_exit |-> FALSE,
     asked |-> <<>>,
     raised |-> FALSE]

\* a slip: the line that clears the agent is missing
reset_interview_keeps_agent(ss) == [FreshSession EXCEPT !.agent = ss.agent]

reset_interview(ss) == FreshSession

\* next((skill for skill in technical_skills if status == "Untested"), None)
RECURSIVE FirstUntested(_, _)
FirstUntested(profile, order) ==
    IF order = <<>> THEN NoneSkill
    ELSE IF profile[Head(order)].status = "Untested" THEN Head(order)
    ELSE FirstUntested(profile, Tail(order))

\* a slip: the generator runs over the list from its end
next_skill_from_end(profile) ==
    FirstUntested(profile,
                  [i \in 1..Len(technical_skills) |->
                      technical_skills[Len(technical_skills) + 1 - i]])

\* a slip: the generator looks for a skill that is not Assessed
next_skill_not_assessed(profile) ==
    LET left == SelectSeq(technical_skills,
                          LAMBDA sk : profile[sk].status # "Assessed")
    IN  IF left = <<>> THEN NoneSkill ELSE Head(left)

next_skill_to_test(profile) == FirstUntested(profile, technical_skills)

ask_behavioral_question(ss, outcome) ==
    LET question == _ask_and_evaluate_behavioral(outcome)
    IN  [ss EXCEPT
            !.current_question = question,
            !.messages = ss.messages
                \o <<Message("assistant",
                             <<"Great, that concludes the technical case study. Let's move on to one final behavioral question.">>),
                     Message("assistant", question)>>,
            !.asked = Append(ss.asked, "Behavioral")]

\* a slip: the question is shown and not stored as the pending one
ask_next_question_not_stored(ss, outcome) ==
    LET next == next_skill_to_test(ss.agent.skill_profile)
    IN  IF next # NoneSkill
        THEN LET question == _ask_next_question(ss.agent, next, outcome)
             IN  [ss EXCEPT
                    !.current_skill = next,
                    !.messages = Append(ss.messages, Message("assistant", question)),
                    !.asked = Append(ss.asked, next)]
        ELSE ask_behavioral_question([ss EXCEPT !.stage = "behavioral_interview"],
                                     outcome)

\* outcome: of the one Oracle call made, for the next technical question or for
\* the behavioral question
ask_next_technical_question(ss, outcome) ==
    LET next == next_skill_to_test(ss.agent.skill_profile)
    IN  IF next # NoneSkill
        THEN LET question == _ask_next_question(ss.agent, next, outcome)
             IN  [ss EXCEPT
                    !.current_skill = next,
                    !.current_question = question,
                    !.messages = Append(ss.messages, Message("assistant", question)),
                    !.asked = Append(ss.asked, next)]
        ELSE ask_behavioral_question([ss EXCEPT !.stage = "behavioral_interview"],
                                     outcome)

Hello(name, role) ==
    <<"Hello ">> \o name \o <<"! Welcome to the interview. The role is set to ">>
        \o role \o <<".">>

start_interview(ss, name, role, case_reply, outcome) ==
    LET agent == [NewAgent(name) EXCEPT !.interview_role = role]
        intro == _introduce_case_study(agent, case_reply)
        greeted == [ss EXCEPT
                      !.agent = intro.agent,
                      !.messages = <<Message("assistant", Hello(name, role))>>]
    IN  IF intro.raised
        THEN [greeted EXCEPT !.raised = TRUE]
        ELSE ask_next_technical_question(
                 [greeted EXCEPT
                    !.messages = Append(greeted.messages,
                                        Message("assistant", intro.text)),
                    !.stage = "technical_interview"],
                 outcome)

\* lines 92-94: intent == "ANSWERING"
answering_branch(ss, prompt, eval_reply, outcome) ==
    LET result == _evaluate_technical_answer(ss.agent, ss.current_question, prompt,
                                             ss.current_skill, eval_reply)
    IN  IF result.raised
        THEN [ss EXCEPT !.raised = TRUE]
        ELSE ask_next_technical_question(
                 [ss EXCEPT
                    !.agent = result.agent,
                    !.messages = Append(ss.messages,
                                        Message("assistant", result.text))],
                 outcome)

\* a slip: the hint is stored as the pending question
hint_branch_replaces_question(ss, outcome) ==
    LET hint == _generate_hint(ss.current_question, outcome)
    IN  [ss EXCEPT
            !.current_question = hint,
            !.messages = Append(ss.messages,
                                Message("assistant",
                                        <<"Of course. Here's a hint: ">> \o hint))]

\* lines 96-97: intent == "HINT_REQUEST"
hint_branch(ss, outcome) ==
    LET hint == _generate_hint(ss.current_question, outcome)
    IN  [ss EXCEPT
            !.messages = Append(ss.messages,
                                Message("assistant",
                                        <<"Of course. Here's a hint: ">> \o hint))]

\* a slip: the skipped skill is marked as the answered ones are
uncertain_branch_assessed(ss, outcome) ==
    ask_next_technical_question(
        [ss EXCEPT
            !.agent.skill_profile[ss.current_skill].status = "Assessed",
            !.messages = Append(ss.messages,
                                Message("assistant", <<"No problem, let's move on.">>))],
        outcome)

\* lines 99-101: any other intent
uncertain_branch(ss, outcome) ==
    ask_next_technical_question(
        [ss EXCEPT
            !.agent.skill_profile[ss.current_skill].status = "Skipped",
            !.messages = Append(ss.messages,
                                Message("assistant", <<"No problem, let's move on.">>))],
        outcome)

\* a slip: the stage written after the behavioral answer is the technical one
behavioral_branch_wrong_stage(ss, prompt, eval_reply) ==
    LET result == evaluate_behavioral_answer(ss.agent, ss.current_question, prompt,
                                             eval_reply)
    IN  IF result.raised
        THEN [ss EXCEPT !.raised = TRUE]
        ELSE [ss EXCEPT
                !.agent = result.agent,
                !.messages = Append(ss.messages, Message("assistant", result.text)),
                !.stage = "technical_interview"]

\* lines 104-107: the behavioral answer
behavioral_branch(ss, prompt, eval_reply) ==
    LET result == evaluate_behavioral_answer(ss.agent, ss.current_question, prompt,
                                             eval_reply)
    IN  IF result.raised
        THEN [ss EXCEPT !.raised = TRUE]
        ELSE [ss EXCEPT
                !.agent = result.agent,
                !.messages = Append(ss.messages, Message("assistant", result.text)),
                !.stage = "report"]

\* a slip: the last branch is taken for the label UNCERTAIN only
handle_user_response_three_labels(ss, prompt, intent_reply, eval_reply, hint_outcome, next_outcome) ==
    LET said == [ss EXCEPT !.messages = Append(ss.messages, Message("user", prompt))]
    IN  IF said.stage = "technical_interview"
        THEN LET intent == _check_user_intent(intent_reply)
             IN  IF intent = <<"ANSWERING">>
                 THEN answering_branch(said, prompt, eval_reply, next_outcome)
                 ELSE IF intent = <<"HINT_REQUEST">>
                 THEN hint_branch(said, hint_outcome)
                 ELSE IF intent = <<"UNCERTAIN">>
                 THEN uncertain_branch(said, next_outcome)
                 ELSE said
        ELSE IF said.stage = "behavioral_interview"
        THEN behavioral_branch(said, prompt, eval_reply)
        ELSE said

\* handle_user_response: intent_reply, eval_reply, hint_outcome and next_outcome
\* are the outcomes of the Oracle calls the handler may make
handle_user_response(ss, prompt, intent_reply, eval_reply, hint_outcome, next_outcome) ==
    LET said == [ss EXCEPT !.messages = Append(ss.messages, Message("user", prompt))]
    IN  IF said.stage = "technical_interview"
        THEN LET intent == _check_user_intent(intent_reply)
             IN  IF intent = <<"ANSWERING">>
                 THEN answering_branch(said, prompt, eval_reply, next_outcome)
                 ELSE IF intent = <<"HINT_REQUEST">>
                 THEN hint_branch(said, hint_outcome)
                 ELSE uncertain_branch(said, next_outcome)
        ELSE IF said.stage = "behavioral_interview"
        THEN behavioral_branch(said, prompt, eval_reply)
        ELSE said

(***************************************************************************)
(* State.                                                                  *)
(***************************************************************************)
VARIABLES
    stage,             \* st.session_state.stage
    messages,          \* st.session_state.messages: the transcript
    agent,             \* st.session_state.agent
    current_question,  \* st.session_state.current_question
    current_skill,     \* st.session_state.current_skill
    confirm_exit,      \* st.session_state.confirm_exit
    report,            \* the report text the report page last showed (None: none)
    files,             \* the log files on disk: file name -> record written
    now,               \* the clock, in whole seconds
    asked,             \* history: skills asked about in this session, in order
    verdicts,          \* history: per skill, the intent and the scores the Oracle gave
    raised,            \* whether the last script run ended in an uncaught exception
    generated,         \* history: calls of generate_final_report for this session,
                       \* counted as 0, 1, more than once
    sent,              \* history: start forms and chat messages submitted in this run
    faults             \* history: failures injected in this run

vars == <<stage, messages, agent, current_question, current_skill, confirm_exit,
          report, files, now, asked, verdicts, raised, generated, sent, faults>>

\* the session record the handlers work on
Session ==
    [stage |-> stage,
     messages |-> messages,
     agent |-> agent,
     current_question |-> current_question,
     current_skill |-> current_skill,
     confirm_exit |-> confirm_exit,
     asked |-> asked,
     raised |-> FALSE]

\* the handler's result becomes the session state
Becomes(ss) ==
    /\ stage' = ss.stage
    /\ messages' = ss.messages
    /\ agent' = ss.agent
    /\ current_question' = ss.current_question
    /\ current_skill' = ss.current_skill
    /\ confirm_exit' = ss.confirm_exit
    /\ asked' = ss.asked
    /\ raised' = ss.raised

NoVerdict == [intent |-> NoneText, score |-> -1, efficiency |-> -1]

NoFiles == [f \in {} |-> NoneValue]

Init ==
    /\ stage = FreshSession.stage
    /\ messages = FreshSession.messages
    /\ agent = FreshSession.agent
    /\ current_question = FreshSession.current_question
    /\ current_skill = FreshSession.current_skill
    /\ confirm_exit = FreshSession.confirm_exit
    /\ asked = FreshSession.asked
    /\ report = NoneText
    /\ files = NoFiles
    /\ now = 0
    /\ verdicts = [sk \in Skills |-> NoVerdict]
    /\ raised = FALSE
    /\ generated = 0
    /\ sent = 0
    /\ faults = 0

(***************************************************************************)
(* One script run per user event.                                          *)
(***************************************************************************)
InProgress == stage \in {"technical_interview", "behavioral_interview"}

\* what the Oracle's evaluation reply holds for d.get(key, 0)
Returned(eval_reply, key) == Get(_call_gemini(eval_reply, TRUE), key, 0)

\* the start form is submitted: start_interview(name, role)
StartInterview(name, role, case_reply, outcome) ==
    /\ stage = "start"
    /\ sent < MaxInputs
    /\ sent' = sent + 1
    /\ Becomes(start_interview(Session, name, role, case_reply, outcome))
    /\ verdicts' = [sk \in Skills |-> NoVerdict]
    /\ generated' = 0
    /\ UNCHANGED <<report, files, now>>

\* a chat message is submitted: handle_user_response(prompt)
Respond(prompt, intent_reply, eval_reply, hint_outcome, next_outcome) ==
    /\ InProgress
    /\ sent < MaxInputs
    /\ sent' = sent + 1
    /\ LET ss == handle_user_response(Session, prompt, intent_reply, eval_reply,
                                      hint_outcome, next_outcome)
           intent == IF stage = "technical_interview"
                     THEN _check_user_intent(intent_reply)
                     ELSE NoneText
       IN  /\ Becomes(ss)
           /\ verdicts' =
                IF ss.raised \/ intent = <<"HINT_REQUEST">> THEN verdicts
                ELSE IF stage = "behavioral_interview"
                THEN [verdicts EXCEPT !["Behavioral"] =
                        [intent |-> NoneText,
                         score |-> Returned(eval_reply, "score"),
                         efficiency |-> -1]]
                ELSE IF intent = <<"ANSWERING">>
                THEN [verdicts EXCEPT ![current_skill] =
                        [intent |-> intent,
                         score |-> Returned(eval_reply, "score"),
                         efficiency |-> Returned(eval_reply, "efficiency_score")]]
                ELSE [verdicts EXCEPT ![current_skill] =
                        [intent |-> intent, score |-> -1, efficiency |-> -1]]
    /\ UNCHANGED <<report, files, now, generated>>

\* the sidebar's "Exit Interview" button (lines 132-133)
ExitInterview ==
    /\ InProgress
    /\ confirm_exit' = TRUE
    /\ raised' = FALSE
    /\ UNCHANGED <<stage, messages, agent, current_question, current_skill, report,
                   files, now, asked, verdicts, generated, sent, faults>>

\* "Yes, Exit Now" (lines 139-141)
YesExitNow ==
    /\ InProgress
    /\ confirm_exit
    /\ Becomes(reset_interview(Session))
    /\ UNCHANGED <<report, files, now, verdicts, generated, sent, faults>>

\* "No, Continue Interview" (lines 143-145)
NoContinue ==
    /\ InProgress
    /\ confirm_exit
    /\ confirm_exit' = FALSE
    /\ raised' = FALSE
    /\ UNCHANGED <<stage, messages, agent, current_question, current_skill, report,
                   files, now, asked, verdicts, generated, sent, faults>>

\* the count of generate_final_report calls: 0, 1, or 2 for "more than once"
Counted(n) == IF n > 2 THEN 2 ELSE n

\* the clock when generate_final_report reads it: time has passed, or not
Clock == {t \in {now, now + 1} : t <= MaxTime}

\* a slip: the report page adds the report to the transcript
RenderReport_into_transcript(outcome, t, write) ==
    /\ stage = "report"
    /\ LET done == generate_final_report(agent, files, outcome, t, write)
       IN  /\ report' = done.text
           /\ files' = done.files
           /\ raised' = done.raised
           /\ messages' = Append(messages, Message("assistant", done.text))
    /\ now' = t
    /\ generated' = Counted(generated + 1)
    /\ UNCHANGED <<stage, agent, current_question, current_skill,
                   confirm_exit, asked, verdicts, sent>>

\* lines 155-162: the script runs in stage 'report' and no button is pressed
RenderReport(outcome, t, write) ==
    /\ stage = "report"
    /\ LET done == generate_final_report(agent, files, outcome, t, write)
       IN  /\ report' = done.text
           /\ files' = done.files
           /\ raised' = done.raised
    /\ now' = t
    /\ generated' = Counted(generated + 1)
    /\ UNCHANGED <<stage, messages, agent, current_question, current_skill,
                   confirm_exit, asked, verdicts, sent>>

\* lines 155-166: "Start New Interview" is pressed on the report page; the script
\* runs from the top, so the report is generated again before the button is read
StartNewInterview(outcome, t, write) ==
    /\ stage = "report"
    /\ generated > 0
    /\ LET done == generate_final_report(agent, files, outcome, t, write)
       IN  files' = done.files
    /\ now' = t
    /\ generated' = Counted(generated + 1)
    /\ Becomes(reset_interview(Session))
    /\ report' = NoneText
    /\ UNCHANGED <<verdicts, sent>>

(***************************************************************************)
(* The inputs: what the candidate types and what the Oracle replies.       *)
(***************************************************************************)
SampleRoles == {<<"Finance">>}

Names == {<<"Ann", " ", "Lee">>}

AllPrompts == {<<"use a pivot table">>, <<"not sure">>}

\* the prompts Spec samples
Prompts == {<<"use a pivot table">>}

IntentLabels == {<<"ANSWERING">>, <<"HINT_REQUEST">>, <<"UNCERTAIN">>}

\* the three labels, a label with a line break after it, another word
GoodIntents == {TextReply(t) : t \in IntentLabels \cup {<<"ANSWERING", "\n">>}}

BadIntents == {Throw, TextReply(<<"MAYBE">>)}

CaseStudy ==
    Dict([scenario |-> <<"sales are falling">>,
          dataset_description |-> <<"Product ID | Sale Date | Revenue">>])

TechnicalEvaluation(score, efficiency) ==
    Dict([score |-> score,
          justification |-> <<"the approach works">>,
          efficiency_score |-> efficiency,
          efficiency_justification |-> <<"few steps">>,
          bot_response |-> <<"Good, thanks.">>])

BehavioralEvaluation(score) ==
    Dict([score |-> score, justification |-> <<"follows STAR">>])

\* replies that are not the JSON object asked for: the call throws, the text
\* is no JSON, the JSON is an array, the object has none of the keys
BadJson == {Throw, JsonReply(Invalid), JsonReply(JsonList), JsonReply(Dict(EmptyDict))}

Scores == 1..MaxScore

\* pairs <<score, efficiency_score>> in range, as sampled by Spec
SamplePairs == {<<2, 4>>}

GoodTechnical == {JsonReply(TechnicalEvaluation(p[1], p[2])) : p \in SamplePairs}

\* a score out of the range the prompt asks for
BadTechnical ==
    BadJson \cup {JsonReply(TechnicalEvaluation(MaxScore + 1, MaxScore + 1))}

GoodBehavioral == {JsonReply(BehavioralEvaluation(3))}

BadBehavioral == BadJson \cup {JsonReply(BehavioralEvaluation(MaxScore + 1))}

\* the number of failures among the outcomes a handler met
Thrown(outcome) == IF outcome = "throw" THEN 1 ELSE 0

In(reply, bad) == IF reply \in bad THEN 1 ELSE 0

\* Spec injects at most MaxFaults failures
Charge(n) ==
    /\ faults' = faults + n
    /\ faults' <= MaxFaults

Raises(json_reply) == ~HasGet(_call_gemini(json_reply, TRUE))

(***************************************************************************)
(* Spec: every handler, with an Oracle that is right, wrong or down.       *)
(***************************************************************************)
Begin ==
    \E name \in Names, role \in SampleRoles, outcome \in TextOutcomes :
        \E case_reply \in {JsonReply(CaseStudy)} \cup BadJson :
            /\ ~Raises(case_reply)
            /\ StartInterview(name, role, case_reply, outcome)
            /\ Charge(In(case_reply, BadJson) + Thrown(outcome))

\* the case study is no JSON object: start_interview raises
BeginRaises ==
    \E name \in Names, role \in SampleRoles, case_reply \in BadJson :
        /\ Raises(case_reply)
        /\ StartInterview(name, role, case_reply, "ok")
        /\ Charge(1)

Classified(intent_reply, labels) ==
    /\ stage = "technical_interview"
    /\ _check_user_intent(intent_reply) \in labels

Answer ==
    \E prompt \in Prompts, intent_reply \in GoodIntents, outcome \in TextOutcomes :
        \E eval_reply \in GoodTechnical \cup BadTechnical :
            /\ Classified(intent_reply, {<<"ANSWERING">>})
            /\ ~Raises(eval_reply)
            /\ Respond(prompt, intent_reply, eval_reply, "ok", outcome)
            /\ Charge(In(eval_reply, BadTechnical) + Thrown(outcome))

\* the evaluation is no JSON object: handle_user_response raises
AnswerRaises ==
    \E prompt \in Prompts, intent_reply \in GoodIntents, eval_reply \in BadTechnical :
        /\ Classified(intent_reply, {<<"ANSWERING">>})
        /\ Raises(eval_reply)
        /\ Respond(prompt, intent_reply, eval_reply, "ok", "ok")
        /\ Charge(1)

Hint ==
    \E prompt \in Prompts, intent_reply \in GoodIntents, outcome \in TextOutcomes :
        /\ Classified(intent_reply, {<<"HINT_REQUEST">>})
        /\ Respond(prompt, intent_reply, Throw, outcome, "ok")
        /\ Charge(Thrown(outcome))

Uncertain ==
    \E prompt \in Prompts, intent_reply \in GoodIntents, outcome \in TextOutcomes :
        /\ Classified(intent_reply, {<<"UNCERTAIN">>})
        /\ Respond(prompt, intent_reply, Throw, "ok", outcome)
        /\ Charge(Thrown(outcome))

\* the classification call failed, or its reply is none of the three labels
Unclassified ==
    \E prompt \in Prompts, intent_reply \in BadIntents, outcome \in TextOutcomes :
        /\ stage = "technical_interview"
        /\ Respond(prompt, intent_reply, Throw, "ok", outcome)
        /\ Charge(1 + Thrown(outcome))

BehavioralAnswer ==
    \E prompt \in Prompts, eval_reply \in GoodBehavioral \cup BadBehavioral :
        /\ stage = "behavioral_interview"
        /\ Respond(prompt, Throw, eval_reply, "ok", "ok")
        /\ Charge(In(eval_reply, BadBehavioral))

Render ==
    \E outcome \in TextOutcomes, t \in Clock, write \in WriteOutcomes :
        /\ RenderReport(outcome, t, write)
        /\ Charge(Thrown(outcome) + In(write, {"fail"}))

StartNew ==
    \E outcome \in TextOutcomes, t \in Clock, write \in WriteOutcomes :
        /\ StartNewInterview(outcome, t, write)
        /\ Charge(Thrown(outcome) + In(write, {"fail"}))

Next ==
    \/ Begin
    \/ BeginRaises
    \/ Answer
    \/ AnswerRaises
    \/ Hint
    \/ Uncertain
    \/ Unclassified
    \/ BehavioralAnswer
    \/ Render
    \/ StartNew
    \/ ExitInterview
    \/ YesExitNow
    \/ NoContinue

Spec == Init /\ [][Next]_vars

(***************************************************************************)
(* SpecOutage: the same handlers when every Oracle call throws.            *)
(***************************************************************************)
OutageBegin ==
    \E name \in Names, role \in Roles :
        /\ StartInterview(name, role, Throw, "throw")
        /\ UNCHANGED faults

OutageRespond ==
    \E prompt \in AllPrompts :
        /\ Respond(prompt, Throw, Throw, "throw", "throw")
        /\ UNCHANGED faults

OutageRender ==
    \E t \in Clock, write \in WriteOutcomes :
        /\ RenderReport("throw", t, write)
        /\ UNCHANGED faults

OutageStartNew ==
    \E t \in Clock, write \in WriteOutcomes :
        /\ StartNewInterview("throw", t, write)
        /\ UNCHANGED faults

NextOutage ==
    \/ OutageBegin
    \/ OutageRespond
    \/ OutageRender
    \/ OutageStartNew
    \/ ExitInterview
    \/ YesExitNow
    \/ NoContinue

SpecOutage == Init /\ [][NextOutage]_vars

(***************************************************************************)
(* SpecGrid: one session with an Oracle that always answers as asked, over *)
(* every score and efficiency in range, up to its report.                  *)
(***************************************************************************)
GridBegin ==
    \E name \in Names, role \in SampleRoles :
        /\ StartInterview(name, role, JsonReply(CaseStudy), "ok")
        /\ UNCHANGED faults

GridAnswer ==
    \E prompt \in Prompts, score \in Scores, efficiency \in Scores :
        /\ stage = "technical_interview"
        /\ Respond(prompt, TextReply(<<"ANSWERING">>),
                   JsonReply(TechnicalEvaluation(score, efficiency)), "ok", "ok")
        /\ UNCHANGED faults

GridUncertain ==
    \E prompt \in Prompts :
        /\ stage = "technical_interview"
        /\ Respond(prompt, TextReply(<<"UNCERTAIN">>), Throw, "ok", "ok")
        /\ UNCHANGED faults

GridBehavioral ==
    \E prompt \in Prompts, score \in Scores :
        /\ stage = "behavioral_interview"
        /\ Respond(prompt, Throw, JsonReply(BehavioralEvaluation(score)), "ok", "ok")
        /\ UNCHANGED faults

GridRender ==
    \E t \in Clock :
        /\ RenderReport("ok", t, "ok")
        /\ UNCHANGED faults

NextGrid ==
    \/ GridBegin
    \/ GridAnswer
    \/ GridUncertain
    \/ GridBehavioral
    \/ GridRender

SpecGrid == Init /\ [][NextGrid]_vars

(***************************************************************************)
(* Vocabulary of the properties.                                           *)
(***************************************************************************)
Status(skill) == agent.skill_profile[skill].status

\* the spec's phases, in their order; CaseStudyIntro is passed inside
\* start_interview and is the phase of no state between two script runs
Rank(s) ==
    CASE s = "start" -> 0
      [] s = "technical_interview" -> 2
      [] s = "behavioral_interview" -> 3
      [] s = "report" -> 4

IsPrefix(a, b) == Len(a) <= Len(b) /\ a = SubSeq(b, 1, Len(a))

\* the candidate's messages in the transcript
Turns == Cardinality({i \in 1..Len(messages) : messages[i].role = "user"})

IsHint(m) ==
    /\ m.role = "assistant"
    /\ Len(m.content) > 0
    /\ m.content[1] = "Of course. Here's a hint: "

AllIntentReplies == GoodIntents \cup BadIntents

\* a script run of handle_user_response in which the intent is HINT_REQUEST
HintStep ==
    /\ stage = "technical_interview"
    /\ sent' = sent + 1
    /\ \E prompt \in Prompts, intent_reply \in AllIntentReplies,
          outcome \in TextOutcomes :
            /\ _check_user_intent(intent_reply) = <<"HINT_REQUEST">>
            /\ Respond(prompt, intent_reply, Throw, outcome, "ok")

\* a script run that ends in reset_interview
ResetStep ==
    /\ stage' = "start"
    /\ \/ YesExitNow
       \/ \E outcome \in TextOutcomes, t \in Clock, write \in WriteOutcomes :
              StartNewInterview(outcome, t, write)

(***************************************************************************)
(* C1.  The technical skills are questioned in the fixed order Data        *)
(* Cleaning, Data Analysis, Data Summarization: the skills asked about so  *)
(* far are an initial part of that order followed by Behavioral (so each   *)
(* becomes current_skill once, and Behavioral comes after all three), a    *)
(* skill is asked about only when every skill before it has left Untested, *)
(* and a session past the technical stage has asked all of them.           *)
(***************************************************************************)
C1_FixedOrder ==
    /\ IsPrefix(asked, QuestionOrder)
    /\ \A i \in 1..Len(asked) : \A j \in 1..(i - 1) : Status(asked[j]) # "Untested"
    /\ stage = "technical_interview" =>
          /\ asked # <<>>
          /\ current_skill = asked[Len(asked)]
          /\ current_skill \in TechnicalSkills
    /\ stage \in {"behavioral_interview", "report"} => asked = QuestionOrder

C1_Witness ==
    /\ stage = "report"
    /\ asked = QuestionOrder
    /\ Status("Data Cleaning") = "Skipped"
    /\ Status("Data Analysis") = "Assessed"

(***************************************************************************)
(* C2.  A response classified HINT_REQUEST in the technical stage leaves   *)
(* current_skill, current_question, the stage and the whole skill profile  *)
(* as they were; the transcript grows by the candidate's message and one   *)
(* hint message.                                                           *)
(***************************************************************************)
C2_HintKeepsQuestion ==
    [][HintStep =>
          /\ current_skill' = current_skill
          /\ current_question' = current_question
          /\ stage' = stage
          /\ agent'.skill_profile = agent.skill_profile
          /\ Len(messages') = Len(messages) + 2
          /\ SubSeq(messages', 1, Len(messages)) = messages
          /\ messages'[Len(messages) + 1].role = "user"
          /\ messages'[Len(messages) + 1].content \in Prompts
          /\ IsHint(messages'[Len(messages) + 2])]_vars

\* two hints were given for the same pending question
C2_Witness ==
    /\ stage = "technical_interview"
    /\ Len(messages) >= 4
    /\ IsHint(messages[Len(messages)])
    /\ IsHint(messages[Len(messages) - 2])
    /\ messages[Len(messages) - 4].content = current_question

(***************************************************************************)
(* C3.  The phase of a session only moves forward: a script run that is    *)
(* not a reset (Yes, Exit Now / Start New Interview) never takes the stage *)
(* to an earlier one.                                                      *)
(***************************************************************************)
C3_PhaseForward == [][Rank(stage') >= Rank(stage) \/ ResetStep]_vars

\* a session that went through every stage
C3_Witness ==
    /\ stage = "report"
    /\ Turns >= 4
    /\ report # NoneText

(***************************************************************************)
(* C4.  In the behavioral and report stages no technical skill is          *)
(* Untested; in the report stage Behavioral is Assessed; and a session     *)
(* whose technical skills have all left Untested is not in the technical   *)
(* stage: it has moved on to the behavioral question.                      *)
(***************************************************************************)
C4_StageNeedsSkills ==
    /\ stage \in {"behavioral_interview", "report"} =>
          \A sk \in TechnicalSkills : Status(sk) # "Untested"
    /\ stage = "report" => Status("Behavioral") = "Assessed"
    /\ (stage # "start" /\ next_skill_to_test(agent.skill_profile) = NoneSkill) =>
          /\ stage \in {"behavioral_interview", "report"}
          /\ Len(asked) = Len(QuestionOrder)

\* the last technical skill was just skipped and the behavioral question asked
C4_Witness ==
    /\ stage = "behavioral_interview"
    /\ Status("Data Summarization") = "Skipped"
    /\ Status("Behavioral") = "Untested"
    /\ messages[Len(messages)].content = current_question

(***************************************************************************)
(* C5.  Under a total Oracle outage (SpecOutage) no script run raises, the *)
(* fourth response of a session puts it in the report stage, there every   *)
(* one of the four skills has left Untested, and the report text the page  *)
(* shows is not empty.                                                     *)
(***************************************************************************)
C5_OutageStillReports ==
    /\ ~raised
    /\ Turns <= 4
    /\ Turns = 4 => stage = "report"
    /\ stage = "report" => \A sk \in Skills : Status(sk) # "Untested"
    /\ (stage = "report" /\ generated > 0) => Len(report) > 0

C5_Witness ==
    /\ stage = "report"
    /\ generated > 0
    /\ report = ApologyText
    /\ \A sk \in TechnicalSkills : Status(sk) = "Skipped"
    /\ Status("Behavioral") = "Assessed"
    /\ current_question = ApologyText

(***************************************************************************)
(* C6.  No Oracle outcome makes a script run of begin, respond or the      *)
(* report raise: a call that throws, text that is no JSON and JSON that is *)
(* not the object asked for are all absorbed.                              *)
(***************************************************************************)
C6_NeverRaises == ~raised

(***************************************************************************)
(* C7.  When the three technical answers were classified ANSWERING and the *)
(* Oracle gave each a score and an efficiency in 1..5, the skill profile,  *)
(* and the final_skill_profile of the log written, hold for each technical *)
(* skill exactly the two numbers the Oracle gave for it, with status       *)
(* Assessed.                                                               *)
(***************************************************************************)
AllAnswered ==
    \A sk \in TechnicalSkills :
        /\ verdicts[sk].intent = <<"ANSWERING">>
        /\ verdicts[sk].score \in Scores
        /\ verdicts[sk].efficiency \in Scores

Kept(profile) ==
    \A sk \in TechnicalSkills :
        /\ profile[sk].status = "Assessed"
        /\ profile[sk].score = verdicts[sk].score
        /\ profile[sk].efficiency = verdicts[sk].efficiency

C7_ScoresKept ==
    AllAnswered =>
        /\ stage \in {"behavioral_interview", "report"}
        /\ Kept(agent.skill_profile)
        /\ \A f \in DOMAIN files : Kept(files[f].final_skill_profile)

\* scores 5, 3, 2 and efficiencies 4, 5, 1, reported and logged
C7_Witness ==
    /\ stage = "report"
    /\ files # NoFiles
    /\ verdicts["Data Cleaning"].score = 5 /\ verdicts["Data Cleaning"].efficiency = 4
    /\ verdicts["Data Analysis"].score = 3 /\ verdicts["Data Analysis"].efficiency = 5
    /\ verdicts["Data Summarization"].score = 2
    /\ verdicts["Data Summarization"].efficiency = 1

(***************************************************************************)
(* C8.  When the three technical responses were classified UNCERTAIN and   *)
(* the Oracle scored the behavioral answer k in 1..5, the profile in the   *)
(* report stage has the three technical skills Skipped, with score 0,      *)
(* efficiency 0 and no evidence, and Behavioral Assessed with score k.     *)
(***************************************************************************)
AllUncertain == \A sk \in TechnicalSkills : verdicts[sk].intent = <<"UNCERTAIN">>

C8_AllSkipped ==
    (stage = "report" /\ AllUncertain /\ verdicts["Behavioral"].score \in Scores) =>
        /\ \A sk \in TechnicalSkills :
              agent.skill_profile[sk] = [UntestedRecord(sk) EXCEPT !.status = "Skipped"]
        /\ {sk \in Skills : Status(sk) = "Skipped"} = TechnicalSkills
        /\ Status("Behavioral") = "Assessed"
        /\ agent.skill_profile["Behavioral"].score = verdicts["Behavioral"].score

C8_Witness ==
    /\ stage = "report"
    /\ AllUncertain
    /\ verdicts["Behavioral"].score = 4
    /\ agent.skill_profile["Behavioral"].score = 4

(***************************************************************************)
(* C9.  Every log record written holds, as full_transcript, the transcript *)
(* of the session at that moment, message for message.                     *)
(***************************************************************************)
C9_TranscriptPersisted ==
    [][\A f \in DOMAIN files' :
          (f \notin DOMAIN files \/ files'[f] # files[f]) =>
              files'[f].full_transcript = messages]_vars

(***************************************************************************)
(* C10.  The report of a session is generated, and its log written, once:  *)
(* generate_final_report is not called a second time for the session.      *)
(***************************************************************************)
C10_ReportOnce == generated <= 1

(***************************************************************************)
(* C11.  A log record on disk is a snapshot: a script run changes a record *)
(* only by generate_final_report writing the file of that name again, the  *)
(* profile a record is written with is the session's profile at the moment *)
(* of the call, and the reset that follows in the same script run (Start   *)
(* New Interview), like every begin, response and exit, leaves the records *)
(* on disk as written.                                                     *)
(***************************************************************************)
C11_RecordIsSnapshot ==
    [][/\ \A f \in DOMAIN files : f \in DOMAIN files'
       /\ \A f \in DOMAIN files' :
             (f \notin DOMAIN files \/ files'[f] # files[f]) =>
                 /\ stage = "report"
                 /\ f = LogFileName(agent, now')
                 /\ files'[f].final_skill_profile = agent.skill_profile]_vars

\* a record written for a session that was then reset
C11_Witness ==
    /\ stage = "start"
    /\ agent = NoneAgent
    /\ \E f \in DOMAIN files :
          /\ files[f].final_skill_profile["Data Cleaning"].status = "Skipped"
          /\ files[f].final_skill_profile["Behavioral"].status = "Assessed"

(***************************************************************************)
(* C12.  A report page whose log write fails still shows the report text   *)
(* generate_final_report returned, raises nothing, writes no file, and     *)
(* leaves the stage and the skill profile as they were.                    *)
(***************************************************************************)
WriteFailsStep ==
    /\ stage = "report"
    /\ stage' = "report"
    /\ \E outcome \in TextOutcomes, t \in Clock : RenderReport(outcome, t, "fail")

C12_WriteFailureAbsorbed ==
    [][WriteFailsStep =>
          /\ report' \in {Completion(<<"report for ">> \o agent.candidate_name),
                          ApologyText}
          /\ ~raised'
          /\ files' = files
          /\ stage' = stage
          /\ agent' = agent]_vars

\* the report was shown and no log exists: the write failed
C12_Witness ==
    /\ stage = "report"
    /\ generated > 0
    /\ files = NoFiles
    /\ report = Completion(<<"report for ">> \o agent.candidate_name)

(***************************************************************************)
(* C13.  Within a session a skill's record changes at most once: a script  *)
(* run that neither begins nor resets a session changes the record of a    *)
(* skill only when that record is the untouched Untested one, and then to  *)
(* status Assessed or Skipped.                                             *)
(***************************************************************************)
C13_StatusMonotonic ==
    [][(stage # "start" /\ stage' # "start") =>
          \A sk \in Skills :
              agent'.skill_profile[sk] # agent.skill_profile[sk] =>
                  /\ agent.skill_profile[sk] = UntestedRecord(sk)
                  /\ agent'.skill_profile[sk].status \in {"Assessed", "Skipped"}]_vars

C13_Witness ==
    /\ stage = "report"
    /\ Status("Data Cleaning") = "Assessed"
    /\ Status("Data Analysis") = "Skipped"
    /\ Status("Data Summarization") = "Assessed"
    /\ Status("Behavioral") = "Assessed"

(***************************************************************************)
(* C14.  In the technical stage current_skill is a technical skill with    *)
(* status Untested, every technical skill before it in the fixed order is  *)
(* Assessed or Skipped and every one after it is Untested, and             *)
(* current_question is the question generated for that skill: it is in the *)
(* transcript, followed only by the candidate's messages and hints.        *)
(***************************************************************************)
C14_CurrentIsFirstUntested ==
    stage = "technical_interview" =>
        /\ current_skill \in TechnicalSkills
        /\ current_skill = next_skill_to_test(agent.skill_profile)
        /\ \E i \in 1..Len(technical_skills) :
              /\ technical_skills[i] = current_skill
              /\ Status(technical_skills[i]) = "Untested"
              /\ \A j \in 1..(i - 1) :
                    Status(technical_skills[j]) \in {"Assessed", "Skipped"}
              /\ \A j \in (i + 1)..Len(technical_skills) :
                    Status(technical_skills[j]) = "Untested"
        /\ \E outcome \in TextOutcomes :
              current_question = _ask_next_question(agent, current_skill, outcome)
        /\ \E k \in 1..Len(messages) :
              /\ messages[k] = Message("assistant", current_question)
              /\ \A m \in (k + 1)..Len(messages) :
                    messages[m].role = "user" \/ IsHint(messages[m])

\* the second skill is pending, the first was assessed, a hint was just given
C14_Witness ==
    /\ stage = "technical_interview"
    /\ current_skill = "Data Analysis"
    /\ Status("Data Cleaning") = "Assessed"
    /\ current_question = Completion(<<"question on ", "Data Analysis">>)
    /\ IsHint(messages[Len(messages)])

(***************************************************************************)
(* C15.  A technical-stage response whose intent is neither ANSWERING nor  *)
(* HINT_REQUEST (UNCERTAIN, another word, the apology text of a failed     *)
(* classification call) is handled as UNCERTAIN: the record of             *)
(* current_skill becomes the untouched record with status Skipped, no      *)
(* other record changes, "No problem, let's move on." follows the          *)
(* candidate's message, and the next untested skill's question, or the     *)
(* behavioral stage with its two messages, follows that.                   *)
(***************************************************************************)
OtherIntentStep ==
    /\ stage = "technical_interview"
    /\ sent' = sent + 1
    /\ \E prompt \in Prompts, intent_reply \in AllIntentReplies,
          outcome \in TextOutcomes :
            /\ _check_user_intent(intent_reply) \notin
                  {<<"ANSWERING">>, <<"HINT_REQUEST">>}
            /\ Respond(prompt, intent_reply, Throw, "ok", outcome)

\* the handler went on to the next untested skill, or to the behavioral question
Advanced ==
    LET next == next_skill_to_test(agent'.skill_profile)
    IN  IF next # NoneSkill
        THEN /\ stage' = "technical_interview"
             /\ current_skill' = next
             /\ current_skill' # current_skill
             /\ Len(messages') = Len(messages) + 3
             /\ messages'[Len(messages')] = Message("assistant", current_question')
        ELSE /\ stage' = "behavioral_interview"
             /\ Len(messages') = Len(messages) + 4
             /\ messages'[Len(messages')] = Message("assistant", current_question')

C15_OtherIntentSkips ==
    [][OtherIntentStep =>
          /\ ~raised'
          /\ agent'.skill_profile =
                [agent.skill_profile EXCEPT ![current_skill] =
                    [UntestedRecord(current_skill) EXCEPT !.status = "Skipped"]]
          /\ messages'[Len(messages) + 1].role = "user"
          /\ messages'[Len(messages) + 2] =
                Message("assistant", <<"No problem, let's move on.">>)
          /\ Advanced]_vars

\* the classification call failed and the skill was skipped
C15_Witness ==
    /\ stage = "technical_interview"
    /\ verdicts["Data Cleaning"].intent = ApologyText
    /\ Status("Data Cleaning") = "Skipped"
    /\ current_skill = "Data Analysis"

(***************************************************************************)
(* C16.  When the evaluation call of an ANSWERING response throws or       *)
(* returns text that is no JSON, the skill under test is recorded Assessed *)
(* with score 0 and efficiency 0, "Okay, thank you for that." follows the  *)
(* candidate's message and the handler advances; for the behavioral answer *)
(* Behavioral is recorded Assessed with score 0, "Thank you for sharing    *)
(* that." follows and the stage becomes report.  One reply and no second   *)
(* evaluation follow the one message; nothing raises.                      *)
(***************************************************************************)
FailedEvaluations == {Throw, JsonReply(Invalid)}

TechnicalEvaluationFailsStep ==
    /\ stage = "technical_interview"
    /\ sent' = sent + 1
    /\ \E prompt \in Prompts, eval_reply \in FailedEvaluations,
          outcome \in TextOutcomes :
            Respond(prompt, TextReply(<<"ANSWERING">>), eval_reply, "ok", outcome)

BehavioralEvaluationFailsStep ==
    /\ stage = "behavioral_interview"
    /\ sent' = sent + 1
    /\ \E prompt \in Prompts, eval_reply \in FailedEvaluations :
            Respond(prompt, Throw, eval_reply, "ok", "ok")

C16_FailedEvaluationScoresZero ==
    [][/\ TechnicalEvaluationFailsStep =>
            /\ ~raised'
            /\ agent'.skill_profile[current_skill].status = "Assessed"
            /\ agent'.skill_profile[current_skill].score = 0
            /\ agent'.skill_profile[current_skill].efficiency = 0
            /\ \A sk \in Skills \ {current_skill} :
                  agent'.skill_profile[sk] = agent.skill_profile[sk]
            /\ messages'[Len(messages) + 1].role = "user"
            /\ messages'[Len(messages) + 2] =
                  Message("assistant", <<"Okay, thank you for that.">>)
            /\ Advanced
       /\ BehavioralEvaluationFailsStep =>
            /\ ~raised'
            /\ agent'.skill_profile["Behavioral"].status = "Assessed"
            /\ agent'.skill_profile["Behavioral"].score = 0
            /\ \A sk \in TechnicalSkills :
                  agent'.skill_profile[sk] = agent.skill_profile[sk]
            /\ Len(messages') = Len(messages) + 2
            /\ messages'[Len(messages')] =
                  Message("assistant", <<"Thank you for sharing that.">>)
            /\ stage' = "report"]_vars

\* the first answer's evaluation failed; the second skill is pending
C16_Witness ==
    /\ stage = "technical_interview"
    /\ current_skill = "Data Analysis"
    /\ verdicts["Data Cleaning"] =
          [intent |-> <<"ANSWERING">>, score |-> 0, efficiency |-> 0]
    /\ agent.skill_profile["Data Cleaning"].status = "Assessed"
    /\ agent.skill_profile["Data Cleaning"].score = 0
    /\ faults = 1

(***************************************************************************)
(* C17.  Every score and every efficiency in the skill profile is in 0..5, *)
(* and it is 0 exactly when the skill is Untested or Skipped: an Assessed  *)
(* skill has a score (a technical one also an efficiency) in 1..5,         *)
(* whatever the Oracle returned.                                           *)
(***************************************************************************)
C17_ScoresInRange ==
    agent # NoneAgent =>
        \A sk \in Skills :
            LET rec == agent.skill_profile[sk]
            IN  /\ rec.score \in 0..MaxScore
                /\ rec.score = 0 <=> rec.status \in {"Untested", "Skipped"}
                /\ sk \in TechnicalSkills =>
                      /\ rec.efficiency \in 0..MaxScore
                      /\ rec.efficiency = 0 <=> rec.status \in {"Untested", "Skipped"}

(***************************************************************************)
(* C18.  "Yes, Exit Now" in the technical or behavioral stage discards the *)
(* session: the six session keys get their initial values and no file is   *)
(* written; no script run outside the report stage writes a file; and the  *)
(* begin that follows a reset starts from a new agent with all four skills *)
(* Untested, a transcript of the greeting, the case study and the first    *)
(* question, and the first skill pending.                                  *)
(***************************************************************************)
C18_AbandonDiscards ==
    [][/\ stage # "report" => files' = files
       /\ (InProgress /\ YesExitNow) =>
            /\ stage' = "start"
            /\ messages' = <<>>
            /\ agent' = NoneAgent
            /\ current_skill' = NoneSkill
            /\ current_question' = NoneText
            /\ confirm_exit' = FALSE
       /\ (stage = "start" /\ stage' = "technical_interview") =>
            /\ \A sk \in Skills : agent'.skill_profile[sk] = UntestedRecord(sk)
            /\ agent'.conversation_history = <<>>
            /\ Len(messages') = 3
            /\ \A i \in 1..3 : messages'[i].role = "assistant"
            /\ messages'[1].content =
                  Hello(agent'.candidate_name, agent'.interview_role)
            /\ current_skill' = technical_skills[1]
            /\ messages'[3].content = current_question'
            /\ confirm_exit' = FALSE
            /\ asked' = <<technical_skills[1]>>]_vars

\* a session begun after an abandoned one: a third form or message, no
\* candidate message in the transcript, no file
C18_Witness ==
    /\ stage = "technical_interview"
    /\ sent >= 3
    /\ Turns = 0
    /\ files = NoFiles
    /\ generated = 0
    /\ \A sk \in Skills : Status(sk) = "Untested"

(***************************************************************************)
(* C19.  Every response that is not a hint request resolves one skill: in  *)
(* a session the number of candidate messages that were not answered by a  *)
(* hint equals the number of skills that have left Untested, and the       *)
(* session is in the report stage exactly when that number is four.        *)
(***************************************************************************)
HintsGiven == Cardinality({i \in 1..Len(messages) : IsHint(messages[i])})

Resolved == Cardinality({sk \in Skills : Status(sk) # "Untested"})

C19_OneSkillPerResponse ==
    stage # "start" =>
        /\ Turns - HintsGiven = Resolved
        /\ stage = "report" <=> Resolved = Len(QuestionOrder)

(***************************************************************************)
(* C20.  In the report stage, generating the report changes nothing of the *)
(* session: as long as the stage stays report, the agent (skill profile,   *)
(* case study, role, name), the transcript, current_skill and              *)
(* current_question stay as they were; and within a session no script run  *)
(* changes the agent's case study, role or name.                           *)
(***************************************************************************)
C20_ReportChangesNothing ==
    [][/\ (stage = "report" /\ stage' = "report") =>
            /\ agent' = agent
            /\ messages' = messages
            /\ current_skill' = current_skill
            /\ current_question' = current_question
            /\ confirm_exit' = confirm_exit
       /\ (stage # "start" /\ stage' # "start") =>
            /\ agent'.case_study_data = agent.case_study_data
            /\ agent'.interview_role = agent.interview_role
            /\ agent'.candidate_name = agent.candidate_name]_vars

\* the report was generated more than once and written at two clock values
C20_Witness ==
    /\ stage = "report"
    /\ generated = 2
    /\ Cardinality(DOMAIN files) = 2
    /\ Turns = 4

====
